---- MODULE Spec2Model ----
(***************************************************************************)
(* scHPF (src/schpf/scHPF_.py): the estimator object, its setup, the       *)
(* coordinate-ascent loop of _fit with its convergence and degradation     *)
(* stopping rules, and the public entry points fit, project, _initialize.  *)
(*                                                                         *)
(* Scalars (hyperparameters, losses, percent changes) are exact rationals. *)
(* Arrays of a Gamma block are kept as values that record which statement  *)
(* wrote them and which arrays that statement read; arrays filled with a   *)
(* single number (the capacity shapes) carry that number.                  *)
(***************************************************************************)
EXTENDS Integers, Sequences, FiniteSets, TLC

\* ------------------------------------------------------------------ bounds
MaxIter == 5        \* largest max_iter a model is constructed with
MaxLoss == 4        \* losses are drawn from 1 .. MaxLoss
MaxCalls == 2       \* calls of fit / project / _initialize on one model
MaxHistory == 6     \* a call starts only if its checks fit in this history

\* --------------------------------------------------------------- rationals
Abs(x) == IF x < 0 THEN -x ELSE x

RECURSIVE GCD(_, _)
GCD(x, y) == IF y = 0 THEN x ELSE GCD(y, x % y)

\* n/d in lowest terms, d > 0
R(n, d) ==
    LET g == GCD(Abs(n), d)
    IN  [n |-> n \div g, d |-> d \div g]

RInt(i) == [n |-> i, d |-> 1]
RAdd(x, y) == R(x.n * y.d + y.n * x.d, x.d * y.d)
RSub(x, y) == R(x.n * y.d - y.n * x.d, x.d * y.d)
RMul(x, y) == R(x.n * y.n, x.d * y.d)
\* x / y for y # 0
RDiv(x, y) ==
    IF y.n > 0 THEN R(x.n * y.d, x.d * y.n) ELSE R(-(x.n * y.d), x.d * (-y.n))
RAbs(x) == [n |-> Abs(x.n), d |-> x.d]
RLess(x, y) == x.n * y.d < y.n * x.d

None == [n |-> 0, d |-> 0]      \* Python None for an optional float
NoObj == 0                      \* Python None for an optional HPF_Gamma

\* -------------------------------------------------------------------- data
\* Count matrices X (dense rows; a zero is an absent triplet), cells x genes.
XA == [id |-> "XA", m |-> << <<1, 0>>, <<0, 3>> >>]
XB == [id |-> "XB", m |-> << <<2, 0>>, <<0, 6>>, <<1, 3>> >>]
XC == [id |-> "XC", m |-> << <<1, 16>>, <<0, 18>> >>]
Datasets == {XA, XB, XC}

NCells(X) == Len(X.m)
NGenes(X) == Len(X.m[1])

RECURSIVE SeqSum(_)
SeqSum(s) == IF s = <<>> THEN 0 ELSE Head(s) + SeqSum(Tail(s))

RECURSIVE RSeqSum(_)
RSeqSum(s) == IF s = <<>> THEN RInt(0) ELSE RAdd(Head(s), RSeqSum(Tail(s)))

\* X.sum(axis): axis 1 gives one sum per row, axis 0 one sum per column
AxisSum(X, axis) ==
    IF axis = 1
    THEN [i \in 1..NCells(X) |-> SeqSum(X.m[i])]
    ELSE [j \in 1..NGenes(X) |-> SeqSum([i \in 1..NCells(X) |-> X.m[i][j]])]

Mean(s) == RDiv(RSeqSum(s), RInt(Len(s)))

\* np.var: the mean of the squared deviations from the mean
Var(s) ==
    LET mu == Mean([i \in 1..Len(s) |-> RInt(s[i])])
        dev(i) == RSub(RInt(s[i]), mu)
    IN  Mean([i \in 1..Len(s) |-> RMul(dev(i), dev(i))])

mean_var_ratio(X, axis) ==
    LET axis_sum == AxisSum(X, axis)
    IN  RDiv(Mean([i \in 1..Len(axis_sum) |-> RInt(axis_sum[i])]), Var(axis_sum))

\* ------------------------------------------------------------------ arrays
\* An array value: k says how it was produced, v is the scalar that entered
\* it (the fill value, the prior, the added hyperparameter), at = <<call,
\* iteration, field>> is the statement instance that wrote it, reads are the
\* stamps of the arrays that statement read.
Stamp(arr) == <<arr.k, arr.v, arr.at>>

Filled(v) == [k |-> "fill", v |-> v, at |-> <<0, 0, "">>, reads |-> <<>>]

Uniform(prior, call, field) ==
    [k |-> "uniform", v |-> prior, at |-> <<call, -1, field>>, reads |-> <<>>]

Written(k, v, call, t, field, reads) ==
    [k |-> k, v |-> v, at |-> <<call, t, field>>, reads |-> reads]

\* HPF_Gamma(vi_shape, vi_rate)
HPF_Gamma(vi_shape, vi_rate, dims) ==
    [vi_shape |-> vi_shape, vi_rate |-> vi_rate, dims |-> dims]

\* HPF_Gamma.random_gamma_factory: both arrays drawn uniformly around the
\* priors; name tells the draws of one call apart
random_gamma_factory(dims, shape_prior, rate_prior, call, name) ==
    HPF_Gamma(Uniform(shape_prior, call, name \o ".vi_shape"),
              Uniform(rate_prior, call, name \o ".vi_rate"), dims)

\* ------------------------------------------------------------------- state
VARIABLES
    self,       \* the scHPF instance: hyperparameters, blocks, loss history
    heap,       \* the HPF_Gamma objects; a block reference is an index, 0 is None
    fr,         \* the locals of the running (or last) call of _fit / _setup
    pc,         \* "idle": no call runs; "loop": inside the for loop of _fit;
                \* "ret": _fit has returned to fit / project
    ncalls      \* calls made on this instance

vars == <<self, heap, fr, pc, ncalls>>

Blocks == {"xi", "eta", "theta", "beta"}

\* scHPF.__init__: the block arguments and loss are ignored, the blocks start
\* as None and the loss history empty
NewModel(nfactors, a, ap, bp, c, cp, dp, min_iter, max_iter, check_freq, epsilon, better_than_n_ago) ==
    [nfactors |-> nfactors, a |-> a, ap |-> ap, bp |-> bp, c |-> c, cp |-> cp,
     dp |-> dp, min_iter |-> min_iter, max_iter |-> max_iter,
     check_freq |-> check_freq, epsilon |-> epsilon,
     better_than_n_ago |-> better_than_n_ago,
     xi |-> NoObj, eta |-> NoObj, theta |-> NoObj, beta |-> NoObj,
     loss |-> <<>>]

\* ------------------------------------------------------------------ _setup
\* (mutant) the clip also taken when bp equals 1000 * dp
ClipNeededAtEquality(clip, bp, dp) == clip /\ ~RLess(bp, RMul(RInt(1000), dp))

\* line 451: clip and bp > 1000 * dp
ClipNeeded(clip, bp, dp) == clip /\ RLess(RMul(RInt(1000), dp), bp)

\* lines 443-444: bp is estimated only when the instance has none
ResolveBp(slf, X) ==
    IF slf.bp = None THEN RMul(slf.ap, mean_var_ratio(X, 1)) ELSE slf.bp

\* (mutant) the test for the gene blocks inverted
GenesMissingInverted(slf) == slf.eta # NoObj \/ slf.beta # NoObj

\* lines 463-464: a frozen gene side needs both gene blocks
GenesMissing(slf) == slf.eta = NoObj \/ slf.beta = NoObj

\* (mutant) a stored block is reused even when reinit is requested
NeedsNewOnlyIfAbsent(reinit, stored) == stored = NoObj

\* lines 456-459, 470-473: reinit or the stored block is None
NeedsNew(reinit, stored) == reinit \/ stored = NoObj

\* The result of _setup: raised is "" or the exception; heap is the heap with
\* the objects it created; clipped says that 'Clipping dp' was printed.
_setup(slf, hp, X, freeze_genes, reinit, clip, call) ==
    LET ncells == NCells(X)
        ngenes == NGenes(X)
        bp == ResolveBp(slf, X)
        dpNone == slf.dp = None
        dpEst == RMul(slf.cp, mean_var_ratio(X, 0))
        clipped == dpNone /\ ~freeze_genes /\ ClipNeeded(clip, bp, dpEst)
        dp == IF ~dpNone THEN slf.dp
              ELSE IF clipped THEN RDiv(bp, RInt(1000)) ELSE dpEst
        newXi == NeedsNew(reinit, slf.xi)
        hp1 == IF newXi
               THEN Append(hp, random_gamma_factory(<<ncells>>, slf.ap, bp, call, "xi"))
               ELSE hp
        xi == IF newXi THEN Len(hp1) ELSE slf.xi
        newTheta == NeedsNew(reinit, slf.theta)
        hp2 == IF newTheta
               THEN Append(hp1, random_gamma_factory(<<ncells, slf.nfactors>>,
                                                     slf.a, bp, call, "theta"))
               ELSE hp1
        theta == IF newTheta THEN Len(hp2) ELSE slf.theta
        newEta == ~freeze_genes /\ NeedsNew(reinit, slf.eta)
        hp3 == IF newEta
               THEN Append(hp2, random_gamma_factory(<<ngenes>>, slf.cp, dp, call, "eta"))
               ELSE hp2
        eta == IF newEta THEN Len(hp3) ELSE slf.eta
        newBeta == ~freeze_genes /\ NeedsNew(reinit, slf.beta)
        hp4 == IF newBeta
               THEN Append(hp3, random_gamma_factory(<<ngenes, slf.nfactors>>,
                                                     slf.c, dp, call, "beta"))
               ELSE hp3
        beta == IF newBeta THEN Len(hp4) ELSE slf.beta
        failed(h) == [raised |-> "ValueError", bp |-> None, dp |-> None,
                      xi |-> NoObj, eta |-> NoObj, theta |-> NoObj,
                      beta |-> NoObj, heap |-> h, clipped |-> FALSE]
    IN  IF dpNone /\ freeze_genes
        THEN failed(hp)
        ELSE IF freeze_genes /\ GenesMissing(slf)
        THEN failed(hp2)
        ELSE [raised |-> "", bp |-> bp, dp |-> dp, xi |-> xi, eta |-> eta,
              theta |-> theta, beta |-> beta, heap |-> hp4, clipped |-> clipped]

\* ----------------------------------------------------- the updates of _fit
\* t = 0 with reinit: a Dirichlet draw; otherwise compute_Xphi_data
Xphi_data(hp, theta, beta, reinit, call, t) ==
    IF t = 0 /\ reinit
    THEN Written("dirichlet", R(1, 4), call, t, "Xphi_data", <<>>)
    ELSE Written("compute_Xphi_data", RInt(0), call, t, "Xphi_data",
                 <<Stamp(hp[theta].vi_shape), Stamp(hp[theta].vi_rate),
                   Stamp(hp[beta].vi_shape), Stamp(hp[beta].vi_rate)>>)

compute_loading_shape_update(Xphi, prior, call, t, field) ==
    Written("compute_loading_shape_update", prior, call, t, field, <<Stamp(Xphi)>>)

compute_loading_rate_update(cap_shape, cap_rate, load_shape, load_rate, call, t, field) ==
    Written("compute_loading_rate_update", RInt(0), call, t, field,
            <<Stamp(cap_shape), Stamp(cap_rate), Stamp(load_shape), Stamp(load_rate)>>)

\* rate_prior + loading.e_x.sum(1), e_x = vi_shape / vi_rate
capacity_rate(rate_prior, loading, call, t, field) ==
    Written("capacity_rate", rate_prior, call, t, field,
            <<Stamp(loading.vi_shape), Stamp(loading.vi_rate)>>)

\* (mutant) the first updates without the fill of the gene-capacity shape
FirstUpdatesNoGeneShape(slf, hp, su, freeze_genes, call) ==
    LET h1 == [hp EXCEPT
                 ![su.xi].vi_shape = Filled(RAdd(slf.ap, RMul(RInt(slf.nfactors), slf.a))),
                 ![su.xi].vi_rate = capacity_rate(su.bp, hp[su.theta], call, -1, "xi.vi_rate")]
    IN  IF freeze_genes THEN h1
        ELSE [h1 EXCEPT
                 ![su.eta].vi_rate = capacity_rate(su.dp, h1[su.beta], call, -1, "eta.vi_rate")]

\* lines 342-346: the first updates of the capacity blocks
FirstUpdates(slf, hp, su, freeze_genes, call) ==
    LET h1 == [hp EXCEPT
                 ![su.xi].vi_shape = Filled(RAdd(slf.ap, RMul(RInt(slf.nfactors), slf.a))),
                 ![su.xi].vi_rate = capacity_rate(su.bp, hp[su.theta], call, -1, "xi.vi_rate")]
    IN  IF freeze_genes THEN h1
        ELSE [h1 EXCEPT
                 ![su.eta].vi_shape = Filled(RAdd(slf.cp, RMul(RInt(slf.nfactors), slf.c))),
                 ![su.eta].vi_rate = capacity_rate(su.dp, h1[su.beta], call, -1, "eta.vi_rate")]

\* lines 360-366: the gene updates of iteration t
GeneUpdates(slf, hp, f, Xphi, call, t) ==
    LET h1 == [hp EXCEPT ![f.beta].vi_shape =
                 compute_loading_shape_update(Xphi, slf.c, call, t, "beta.vi_shape")]
        h2 == [h1 EXCEPT ![f.beta].vi_rate =
                 compute_loading_rate_update(h1[f.eta].vi_shape, h1[f.eta].vi_rate,
                     h1[f.theta].vi_shape, h1[f.theta].vi_rate, call, t, "beta.vi_rate")]
    IN  [h2 EXCEPT ![f.eta].vi_rate =
                 capacity_rate(f.dp, h2[f.beta], call, t, "eta.vi_rate")]

\* lines 368-373: the cell updates of iteration t
CellUpdates(slf, hp, f, Xphi, call, t) ==
    LET h1 == [hp EXCEPT ![f.theta].vi_shape =
                 compute_loading_shape_update(Xphi, slf.a, call, t, "theta.vi_shape")]
        h2 == [h1 EXCEPT ![f.theta].vi_rate =
                 compute_loading_rate_update(h1[f.xi].vi_shape, h1[f.xi].vi_rate,
                     h1[f.beta].vi_shape, h1[f.beta].vi_rate, call, t, "theta.vi_rate")]
    IN  [h2 EXCEPT ![f.xi].vi_rate =
                 capacity_rate(f.bp, h2[f.theta], call, t, "xi.vi_rate")]

\* (mutant) the cell updates made before the gene updates
BlockUpdatesCellsFirst(slf, hp, f, call, t) ==
    LET Xphi == Xphi_data(hp, f.theta, f.beta, f.reinit, call, t)
        h1 == CellUpdates(slf, hp, f, Xphi, call, t)
    IN  IF f.freeze_genes THEN h1 ELSE GeneUpdates(slf, h1, f, Xphi, call, t)

\* (mutant) the gene updates made even when the gene side is frozen
BlockUpdatesGenesAlways(slf, hp, f, call, t) ==
    LET Xphi == Xphi_data(hp, f.theta, f.beta, f.reinit, call, t)
    IN  CellUpdates(slf, GeneUpdates(slf, hp, f, Xphi, call, t), f, Xphi, call, t)

\* lines 350-373: the block updates of iteration t
BlockUpdates(slf, hp, f, call, t) ==
    LET Xphi == Xphi_data(hp, f.theta, f.beta, f.reinit, call, t)
        h1 == IF f.freeze_genes THEN hp ELSE GeneUpdates(slf, hp, f, Xphi, call, t)
    IN  CellUpdates(slf, h1, f, Xphi, call, t)

\* ------------------------------------------------------ the stopping rules
\* Python s[-i] for 1 <= i <= len(s)
FromEnd(s, i) == s[Len(s) - i + 1]

\* line 387: 100 * (curr - prev) / np.abs(prev)
PctChange(curr, prev) ==
    RDiv(RMul(RInt(100), RInt(curr - prev)), RInt(Abs(prev)))

\* (mutant) the minimum-iteration floor taken as a strict bound
ConvergenceGuardStrict(loss, t, min_iter) == Len(loss) > 3 /\ t > min_iter

\* line 399
ConvergenceGuard(loss, t, min_iter) == Len(loss) > 3 /\ t >= min_iter

\* lines 401, 402
Small(pct, epsilon) == RLess(RAbs(pct), epsilon)

\* (mutant) the inflection test with non-strict comparisons
NotInflectionNonStrict(loss, prev, curr) ==
    ~(Abs(FromEnd(loss, 3)) <= Abs(prev) /\ Abs(prev) >= Abs(curr))

\* lines 403-405
NotInflection(loss, prev, curr) ==
    ~(Abs(FromEnd(loss, 3)) < Abs(prev) /\ Abs(prev) > Abs(curr))

\* line 406
Converged(current_small, prev_small, not_inflection) ==
    current_small /\ prev_small /\ not_inflection

\* (mutant) the window test off by one
DegradationGuardOffByOne(loss, n) == Len(loss) > n + 1 /\ n # 0

\* lines 413-414
DegradationGuard(loss, n) == Len(loss) > n /\ n # 0

\* line 415: nprev = self.loss[-self.better_than_n_ago]
NPrev(loss, n) == FromEnd(loss, n)

\* lines 416-418
GettingWorseBreak(nprev, prev, curr) ==
    Abs(nprev) < Abs(curr) /\ Abs(prev) < Abs(curr)

\* ------------------------------------------------------------------- calls
Losses == 1..MaxLoss

\* number of convergence checks a complete loop makes
NumChecks(max_iter, check_freq) == (max_iter + check_freq - 1) \div check_freq

NoCheck == [t |-> -1, conv |-> FALSE, deg |-> FALSE]

\* the local Xphi_data before the first iteration assigns it
NoArray == [k |-> "unbound", v |-> None, at |-> <<0, 0, "">>, reads |-> <<>>]

\* The locals of a call. entry is the public method called; status is
\* "running", "returned" or "raised"; chk says what the last iteration
\* evaluated (t: it made the check of iteration t; conv: it evaluated the
\* convergence rule; deg: it evaluated the degradation rule); pre is the
\* instance and the heap as they were when the call was made.
\* message_function says whether the caller supplied one; messages are its
\* invocations so far, each with its arguments and what it could observe.
Frame(entry, X, freeze_genes, reinit, min_iter, su, status, error, slf, hp) ==
    [entry |-> entry, status |-> status, error |-> error, outcome |-> "",
     X |-> X, freeze_genes |-> freeze_genes, reinit |-> reinit,
     min_iter |-> min_iter,
     bp |-> su.bp, dp |-> su.dp, xi |-> su.xi, eta |-> su.eta,
     theta |-> su.theta, beta |-> su.beta, clipped |-> su.clipped,
     pct_change |-> <<>>, t |-> 0, niter |-> 0, nchecks |-> 0,
     curr |-> 0, prev |-> 0, nprev |-> 0,
     current_small |-> FALSE, prev_small |-> FALSE, not_inflection |-> FALSE,
     converged |-> FALSE, worse_than_n_ago |-> FALSE, getting_worse |-> FALSE,
     chk |-> NoCheck,
     Xphi_data |-> NoArray, message_function |-> FALSE, messages |-> <<>>,
     ret |-> [bp |-> None, dp |-> None, xi |-> NoObj, eta |-> NoObj,
              theta |-> NoObj, beta |-> NoObj],
     pre |-> [self |-> slf, heap |-> hp]]

NoSetup == [raised |-> "", bp |-> None, dp |-> None, xi |-> NoObj, eta |-> NoObj,
            theta |-> NoObj, beta |-> NoObj, heap |-> <<>>, clipped |-> FALSE]

CanCall == pc = "idle" /\ ncalls < MaxCalls

\* the loss history is never emptied: a fit starts only while its checks fit
HistoryRoom ==
    Len(self.loss) + NumChecks(self.max_iter, self.check_freq) <= MaxHistory

\* _fit up to the loop (lines 334-349): _setup, the first updates, the empty
\* pct_change and the resolved min_iter. min_iter = -1 stands for None.
EnterFit(entry, X, freeze_genes, reinit, min_iter, message_function) ==
    LET call == ncalls + 1
        mi == IF min_iter = -1 THEN self.min_iter ELSE min_iter
    IN  \E su \in {_setup(self, heap, X, freeze_genes, reinit, TRUE, call)} :
        /\ CanCall
        /\ HistoryRoom
        /\ ncalls' = call
        /\ self' = self
        /\ IF su.raised # ""
           THEN /\ heap' = su.heap
                /\ fr' = Frame(entry, X, freeze_genes, reinit, mi, su,
                               "raised", su.raised, self, heap)
                /\ pc' = "idle"
           ELSE /\ heap' = FirstUpdates(self, su.heap, su, freeze_genes, call)
                /\ fr' = [Frame(entry, X, freeze_genes, reinit, mi, su,
                                "running", "", self, heap)
                            EXCEPT !.outcome = IF self.max_iter > 0 THEN ""
                                               ELSE "max_iter",
                                   !.message_function = message_function]
                /\ pc' = IF self.max_iter > 0 THEN "loop" ELSE "ret"

\* fit(X, **params): the keyword arguments go to _fit
Fit(X, freeze_genes, reinit, min_iter, message_function) ==
    EnterFit("fit", X, freeze_genes, reinit, min_iter, message_function)

\* (mutant) project continuing from the stored cell blocks
ProjectNoReinit(X) ==
    EnterFit("project", X, TRUE, FALSE, -1, FALSE)

\* project(X): _fit with freeze_genes=True; its own min_iter is not passed
\* on, and neither reinit nor a message_function is given
Project(X) ==
    EnterFit("project", X, TRUE, TRUE, -1, FALSE)

\* _initialize(X, freeze_genes): _setup with reinit=True, stored on the instance
Initialize(X, freeze_genes) ==
    LET call == ncalls + 1
    IN  \E su \in {_setup(self, heap, X, freeze_genes, TRUE, TRUE, call)} :
        /\ CanCall
        /\ ncalls' = call
        /\ heap' = su.heap
        /\ pc' = "idle"
        /\ IF su.raised # ""
           THEN /\ self' = self
                /\ fr' = Frame("_initialize", X, freeze_genes, TRUE, self.min_iter,
                               su, "raised", su.raised, self, heap)
           ELSE /\ self' = [self EXCEPT !.bp = su.bp, !.dp = su.dp, !.xi = su.xi,
                                        !.eta = su.eta, !.theta = su.theta,
                                        !.beta = su.beta]
                /\ fr' = Frame("_initialize", X, freeze_genes, TRUE, self.min_iter,
                               su, "returned", "", self, heap)

\* ------------------------------------------------------------ the for loop
\* How iteration t leaves the loop variable: the loop goes on while
\* t + 1 < max_iter (line 350; line 424 never holds inside the loop)
LoopGoesOn(t, max_iter) == t + 1 < max_iter

\* the end of an iteration that breaks with outcome o, or "" when it does not
EndOfIteration(f, t, o) ==
    LET f1 == [f EXCEPT !.t = t + 1, !.niter = f.niter + 1]
    IN  IF o # "" THEN [f1 EXCEPT !.outcome = o]
        ELSE IF LoopGoesOn(t, self.max_iter) THEN f1
        ELSE [f1 EXCEPT !.outcome = "max_iter"]

\* lines 377-420 of iteration t with the loss curr: the new loss history and
\* the new locals; raised is "IndexError" when pct_change[-2] does not exist
Check(f, loss0, t, curr) ==
    LET loss == Append(loss0, curr)
        hasPrev == Len(loss) >= 2
        prev == IF hasPrev THEN FromEnd(loss, 2) ELSE f.prev
        pct == Append(f.pct_change,
                      IF hasPrev THEN PctChange(curr, prev) ELSE RInt(100))
        n == self.better_than_n_ago
        f1 == [f EXCEPT !.curr = curr, !.prev = prev, !.pct_change = pct,
                        !.nchecks = f.nchecks + 1,
                        !.chk = [t |-> t, conv |-> FALSE, deg |-> FALSE]]
        guard == ConvergenceGuard(loss, t, f.min_iter)
        current_small == Small(FromEnd(pct, 1), self.epsilon)
        prev_small == Small(FromEnd(pct, 2), self.epsilon)
        not_inflection == NotInflection(loss, prev, curr)
        converged == Converged(current_small, prev_small, not_inflection)
        f2 == [f1 EXCEPT !.current_small = current_small,
                         !.prev_small = prev_small,
                         !.not_inflection = not_inflection,
                         !.converged = converged,
                         !.chk = [t |-> t, conv |-> TRUE, deg |-> FALSE]]
        nprev == NPrev(loss, n)
        worse_than_n_ago == Abs(nprev) < Abs(curr)
        getting_worse == Abs(prev) < Abs(curr)
        f3 == [f2 EXCEPT !.nprev = nprev,
                         !.worse_than_n_ago = worse_than_n_ago,
                         !.getting_worse = getting_worse,
                         !.chk = [t |-> t, conv |-> TRUE, deg |-> TRUE]]
    IN  IF ~guard
        THEN [raised |-> "", loss |-> loss, f |-> EndOfIteration(f1, t, "")]
        ELSE IF Len(pct) < 2
        THEN [raised |-> "IndexError", loss |-> loss,
              f |-> [f1 EXCEPT !.current_small = current_small,
                               !.t = t + 1, !.niter = f.niter + 1]]
        ELSE IF converged
        THEN [raised |-> "", loss |-> loss, f |-> EndOfIteration(f2, t, "converged")]
        ELSE IF ~DegradationGuard(loss, n)
        THEN [raised |-> "", loss |-> loss, f |-> EndOfIteration(f2, t, "")]
        ELSE IF GettingWorseBreak(nprev, prev, curr)
        THEN [raised |-> "", loss |-> loss,
              f |-> EndOfIteration(f3, t, "getting worse break")]
        ELSE [raised |-> "", loss |-> loss, f |-> EndOfIteration(f3, t, "")]

\* (mutant) the check made at the end of every check_freq iterations
IsCheckAtEndOfPeriod(t, check_freq) == (t + 1) % check_freq = 0

\* line 377: iteration t makes a convergence check
IsCheck(t, check_freq) == t % check_freq = 0

\* lines 394-395: message_function(theta, beta, t), when one was given; seen
\* is what the cell-loading block holds when it is invoked
CallMessageFunction(f, hp, t) ==
    IF f.message_function
    THEN [f EXCEPT !.messages = Append(@,
            [theta |-> f.theta, beta |-> f.beta, t |-> t,
             seen |-> <<Stamp(hp[f.theta].vi_shape), Stamp(hp[f.theta].vi_rate)>>])]
    ELSE f

\* One iteration of the loop of _fit (lines 350-425): the block updates, and
\* at a multiple of check_freq the check with the loss it measures.
Iterate ==
    /\ pc = "loop"
    /\ LET t == fr.t
           h == BlockUpdates(self, heap, fr, ncalls, t)
           f0 == [fr EXCEPT !.Xphi_data =
                    Xphi_data(heap, fr.theta, fr.beta, fr.reinit, ncalls, t)]
       IN  /\ heap' = h
           /\ ncalls' = ncalls
           /\ IF IsCheck(t, self.check_freq)
              THEN \E curr \in Losses :
                     LET c == Check(CallMessageFunction(f0, h, t), self.loss, t, curr)
                     IN  /\ self' = [self EXCEPT !.loss = c.loss]
                         /\ IF c.raised # ""
                            THEN /\ fr' = [c.f EXCEPT !.status = "raised",
                                                      !.error = c.raised]
                                 /\ pc' = "idle"
                            ELSE /\ fr' = c.f
                                 /\ pc' = IF c.f.outcome = "" THEN "loop" ELSE "ret"
              ELSE LET f == EndOfIteration([f0 EXCEPT !.chk = NoCheck], t, "")
                   IN  /\ self' = self
                       /\ fr' = f
                       /\ pc' = IF f.outcome = "" THEN "loop" ELSE "ret"

Returned(f) == [bp |-> f.bp, dp |-> f.dp, xi |-> f.xi, eta |-> f.eta,
                theta |-> f.theta, beta |-> f.beta]

\* fit, lines 268-276: the six values _fit returned are stored
FitReturn ==
    /\ pc = "ret"
    /\ fr.entry = "fit"
    /\ self' = [self EXCEPT !.bp = fr.bp, !.dp = fr.dp, !.xi = fr.xi,
                            !.eta = fr.eta, !.theta = fr.theta, !.beta = fr.beta]
    /\ fr' = [fr EXCEPT !.status = "returned", !.ret = Returned(fr)]
    /\ pc' = "idle"
    /\ UNCHANGED <<heap, ncalls>>

\* project, lines 282-284: bp, xi and theta are returned, nothing is stored
ProjectReturn ==
    /\ pc = "ret"
    /\ fr.entry = "project"
    /\ fr' = [fr EXCEPT !.status = "returned",
                        !.ret = [Returned(fr) EXCEPT !.dp = None, !.eta = NoObj,
                                                     !.beta = NoObj]]
    /\ pc' = "idle"
    /\ UNCHANGED <<self, heap, ncalls>>

\* ---------------------------------------------------------- specifications
\* The defaults of __init__ (lines 148-152) with nfactors = 2
DefaultModel(bp, dp, min_iter, max_iter, check_freq, epsilon, better_than_n_ago) ==
    NewModel(2, R(3, 10), RInt(1), bp, R(3, 10), RInt(1), dp,
             min_iter, max_iter, check_freq, epsilon, better_than_n_ago)

Start(model) ==
    /\ self = model
    /\ heap = <<>>
    /\ fr = Frame("none", XA, FALSE, FALSE, 0, NoSetup, "none", "", model, <<>>)
    /\ pc = "idle"
    /\ ncalls = 0

\* Calls in sequence on one model: a fit, a refit, a projection
Init ==
    \E min_iter \in {0, 1}, max_iter \in {3}, n \in {0, 2} :
        Start(DefaultModel(None, None, min_iter, max_iter, 1, R(1, 1000), n))

Next ==
    \/ Fit(XA, FALSE, TRUE, -1, FALSE)
    \/ Project(XB)
    \/ Iterate
    \/ FitReturn
    \/ ProjectReturn

Spec == Init /\ [][Next]_vars

\* One fit of a new model: every configuration of the stopping rules
InitLoop ==
    \E min_iter \in {0, MaxIter - 1}, max_iter \in 0..MaxIter,
       check_freq \in {1, 2},
       epsilon \in {R(1, 1000), RInt(40)}, n \in 0..3 :
        Start(DefaultModel(None, None, min_iter, max_iter, check_freq, epsilon, n))

NextLoop ==
    \/ (ncalls = 0 /\ Fit(XA, FALSE, TRUE, -1, FALSE))
    \/ Iterate
    \/ FitReturn

SpecLoop == InitLoop /\ [][NextLoop]_vars

\* Setup: supplied and estimated hyperparameters, every data set, every
\* combination of freeze_genes and reinit, on models in every stage
InitSetup ==
    \E bp \in {None, RInt(2000)}, dp \in {None, RInt(1)}, max_iter \in {0, 1} :
        /\ max_iter = 1 => (bp = None /\ dp = None)
        /\ Start(DefaultModel(bp, dp, 0, max_iter, 1, R(1, 1000), 0))

NextSetup ==
    \/ \E X \in Datasets, freeze_genes \in BOOLEAN, reinit \in BOOLEAN :
          Fit(X, freeze_genes, reinit, -1, FALSE)
    \/ \E X \in Datasets : Project(X)
    \/ \E freeze_genes \in BOOLEAN : Initialize(XA, freeze_genes)
    \/ Iterate
    \/ FitReturn
    \/ ProjectReturn

SpecSetup == InitSetup /\ [][NextSetup]_vars

\* A fit with or without a message_function and a second fit that continues
\* from the stored blocks, with the gene side frozen or not, for every
\* check_freq
InitHook ==
    \E max_iter \in 0..MaxIter, check_freq \in 1..3 :
        Start(DefaultModel(None, None, 2, max_iter, check_freq, R(1, 1000), 2))

NextHook ==
    \/ \E message_function \in BOOLEAN :
          ncalls = 0 /\ Fit(XA, FALSE, TRUE, -1, message_function)
    \/ \E freeze_genes \in BOOLEAN :
          ncalls = 1 /\ Fit(XB, freeze_genes, FALSE, -1, TRUE)
    \/ Iterate
    \/ FitReturn

SpecHook == InitHook /\ [][NextHook]_vars

\* ================================================================== claims
\* the call of fr went past _setup into _fit's loop section
Entered == fr.status # "none" /\ fr.entry \in {"fit", "project"} /\ fr.error # "ValueError"

\* the state is the one right after an iteration that made a convergence check
AtCheck == Entered /\ fr.chk.t >= 0

\* the objects that existed when the call was made are as they were
OldObjectsUnchanged ==
    \A i \in 1..Len(fr.pre.heap) : heap[i] = fr.pre.heap[i]

SmallPct(p) == Abs(p.n) * self.epsilon.d < self.epsilon.n * p.d

\* ------------------------------------------------------------------- C1
\* C1: during and after a fit with the gene side frozen on a model that holds
\* eta and beta (after the first updates, after every iteration, on return or
\* on an error inside the loop), the model's eta and beta are the objects they
\* were, their vi_shape and vi_rate are what they were when the call was made,
\* and dp, stored and returned, is the dp of before the call.
C1_FrozenGenesUntouched ==
    (Entered /\ fr.freeze_genes
       /\ fr.pre.self.eta # NoObj /\ fr.pre.self.beta # NoObj)
    => LET p == fr.pre.self
       IN  /\ self.eta = p.eta /\ self.beta = p.beta
           /\ fr.eta = p.eta /\ fr.beta = p.beta
           /\ heap[p.eta] = fr.pre.heap[p.eta]
           /\ heap[p.beta] = fr.pre.heap[p.beta]
           /\ self.dp = p.dp /\ fr.dp = p.dp

\* a projection that iterated returned after the convergence rule stopped it
C1_Witness ==
    /\ fr.entry = "project" /\ fr.status = "returned"
    /\ fr.outcome = "converged" /\ fr.niter >= 2

\* ------------------------------------------------------------------- C2
\* C2: when fit or project returns, the loss history holds exactly the losses
\* of the checks of that call: its length is the number of checks made.
C2_HistoryIsPerCall ==
    (Entered /\ fr.status = "returned") => Len(self.loss) = fr.nchecks

\* ------------------------------------------------------------------- C3
\* C3: at a convergence check the loop stops as converged exactly when the
\* history has at least 4 points, t is at or past the minimum-iteration
\* floor, the two most recent percent changes are both below epsilon in
\* magnitude, and it is not the case that |loss two checks back| <
\* |previous loss| and |previous loss| > |current loss|.
C3_ConvergedExactlyWhen ==
    AtCheck =>
      LET loss == self.loss
          pct == fr.pct_change
          L == Len(loss)
          P == Len(pct)
          met == /\ L >= 4
                 /\ fr.chk.t >= fr.min_iter
                 /\ P >= 2
                 /\ SmallPct(pct[P]) /\ SmallPct(pct[P - 1])
                 /\ ~(Abs(loss[L - 2]) < Abs(loss[L - 1])
                      /\ Abs(loss[L - 1]) > Abs(loss[L]))
      IN  (fr.outcome = "converged") <=> met

\* a check stopped the loop as converged after two small, nonzero changes
C3_Witness ==
    /\ AtCheck /\ fr.outcome = "converged"
    /\ fr.pct_change[Len(fr.pct_change)].n # 0

\* ------------------------------------------------------------------- C4
\* the comparison the degradation rule makes at the check just made: the
\* current loss is larger in magnitude than the entry at index -n of the
\* history and than the preceding loss
DegradingHere ==
    LET n == self.better_than_n_ago
        L == Len(self.loss)
    IN  /\ n > 0 /\ L > n
        /\ Abs(self.loss[L - n + 1]) < Abs(self.loss[L])
        /\ Abs(self.loss[L - 1]) < Abs(self.loss[L])

C5_EndsByMaxIter ==
    Entered =>
      /\ fr.niter <= self.max_iter
      /\ (pc = "idle" /\ fr.outcome \notin {"converged", "getting worse break"})
            => (fr.status = "returned" /\ fr.outcome = "max_iter"
                /\ fr.niter = self.max_iter)

\* ------------------------------------------------------------------- C6
\* C6: a call with the gene side frozen on a model whose dp is unset, or whose
\* eta or beta is absent, raises ValueError in setup: no iteration has run,
\* and the model (bp, dp, the four block references, the loss history) and
\* every object that existed before the call are as they were.
C6_FrozenSetupFails ==
    (fr.status # "none" /\ fr.freeze_genes
       /\ (fr.pre.self.dp = None \/ fr.pre.self.eta = NoObj
           \/ fr.pre.self.beta = NoObj))
    => /\ fr.status = "raised" /\ fr.error = "ValueError"
       /\ pc = "idle" /\ fr.niter = 0 /\ fr.nchecks = 0
       /\ self = fr.pre.self
       /\ OldObjectsUnchanged

\* dp was set, the gene blocks were absent: the error came after _setup had
\* created the cell blocks of the call
C6_Witness ==
    /\ fr.entry = "project" /\ fr.status = "raised"
    /\ fr.pre.self.dp # None /\ fr.pre.self.eta = NoObj
    /\ Len(heap) > Len(fr.pre.heap)

\* ------------------------------------------------------------------- C7
\* _setup of a call with the gene side not frozen has returned
NonFrozenSetupDone == fr.status # "none" /\ ~fr.freeze_genes

\* C7 as stated: the bp, dp that setup of a non-frozen fit returns always
\* satisfy bp <= 1000 * dp, dp supplied or estimated.
C7_AlwaysWithinRatio ==
    NonFrozenSetupDone => ~RLess(RMul(RInt(1000), fr.dp), fr.bp)

\* C7 amended: clipping applies to an estimated dp only. When the instance
\* has no dp, setup estimates it; if bp (supplied or estimated) exceeds 1000
\* times the estimate, dp becomes bp / 1000 and the adjustment is reported,
\* otherwise dp is the estimate and nothing is reported; either way
\* bp <= 1000 * dp. When the instance has a dp, that dp is returned as it is
\* and nothing is reported.
C7_ClipsEstimatedDp ==
    NonFrozenSetupDone =>
      IF fr.pre.self.dp = None
      THEN LET est == RMul(self.cp, mean_var_ratio(fr.X, 0))
           IN  /\ ~RLess(RMul(RInt(1000), fr.dp), fr.bp)
               /\ IF RLess(RMul(RInt(1000), est), fr.bp)
                  THEN fr.clipped /\ fr.dp = RDiv(fr.bp, RInt(1000))
                  ELSE ~fr.clipped /\ fr.dp = est
      ELSE ~fr.clipped /\ fr.dp = fr.pre.self.dp

\* both estimated from XC: bp = 70, dp estimated 70/1089, clipped to 7/100
C7_Witness ==
    /\ NonFrozenSetupDone /\ fr.clipped /\ fr.X = XC
    /\ fr.pre.self.bp = None
    /\ fr.bp = RInt(70) /\ fr.dp = R(7, 100)

\* ------------------------------------------------------------------- C8
\* C8: the bp that project(X_new) returns is estimated from X_new:
\* ap * mean / variance of the row sums of X_new.
C8_ProjectEstimatesBp ==
    (fr.entry = "project" /\ fr.status = "returned")
    => fr.ret.bp = RMul(self.ap, mean_var_ratio(fr.X, 1))

\* ------------------------------------------------------------------- C9
\* the last two checks both recorded a percent change of zero, and both were
\* made at or past the minimum-iteration floor
FlatTwice ==
    LET P == Len(fr.pct_change)
    IN  /\ AtCheck /\ P >= 2
        /\ fr.pct_change[P].n = 0 /\ fr.pct_change[P - 1].n = 0
        /\ fr.chk.t - self.check_freq >= fr.min_iter

\* C9 as stated: a loss held flat for two consecutive checks at or past
\* min_iter stops the loop as converged at the second of them.
C9_FlatConverges == FlatTwice => fr.outcome = "converged"

\* C9 amended: ... provided the history has at least 4 points at the second
\* of those checks; then the loop stops there as converged and runs no
\* further iteration.
C9_FlatConvergesWithFourPoints ==
    (FlatTwice /\ Len(self.loss) >= 4)
    => (fr.outcome = "converged" /\ pc # "loop")

\* a flat loss stopped the loop before its last iteration
C9_Witness ==
    /\ FlatTwice /\ fr.outcome = "converged"
    /\ fr.niter < self.max_iter

\* ------------------------------------------------------------------ C10
\* C10: the entry the degradation rule compares the current loss with is the
\* loss recorded exactly n = better_than_n_ago checks before the current one.
C10_ComparesNChecksBack ==
    (AtCheck /\ fr.chk.deg)
    => fr.nprev = self.loss[Len(self.loss) - self.better_than_n_ago]

\* ------------------------------------------------------------------ C11
\* C11: the percent change recorded at the first check of a call is 100, and
\* every later one of the call is 100 * (curr - prev) / |prev| over two
\* consecutive losses recorded in that call.
C11_FirstPctIs100 ==
    AtCheck =>
      LET P == Len(fr.pct_change)
          L == Len(self.loss)
      IN  /\ fr.pct_change[1] = RInt(100)
          /\ \A i \in 2..P :
                fr.pct_change[i] =
                  PctChange(self.loss[L - P + i], self.loss[L - P + i - 1])

\* ------------------------------------------------------------------ C12
\* a step that is one iteration of the loop
IterationStep == pc = "loop" /\ fr'.niter = fr.niter + 1

\* the stamps of both arrays of the block b of heap h
BlockStamps(h, b) == <<Stamp(h[b].vi_shape), Stamp(h[b].vi_rate)>>

\* the responsibilities of the iteration were computed from the cell-loading
\* and gene-loading blocks as they were before the iteration
XphiFromBlocks ==
    /\ fr'.Xphi_data.k = "compute_Xphi_data"
    /\ fr'.Xphi_data.reads = BlockStamps(heap, fr.theta) \o BlockStamps(heap, fr.beta)

\* the responsibilities of the iteration are a random draw that read no block
XphiRandom ==
    fr'.Xphi_data.k = "dirichlet" /\ fr'.Xphi_data.reads = <<>>

\* the writes of one iteration and what each of them read
WritesInOrder ==
    LET t == fr.t
        Xphi == <<Stamp(fr'.Xphi_data)>>
    IN  /\ fr'.Xphi_data.at = <<ncalls, t, "Xphi_data">>
        /\ IF fr.freeze_genes
           THEN heap'[fr.beta] = heap[fr.beta] /\ heap'[fr.eta] = heap[fr.eta]
           ELSE /\ heap'[fr.beta].vi_shape.at = <<ncalls, t, "beta.vi_shape">>
                /\ heap'[fr.beta].vi_shape.reads = Xphi
                /\ heap'[fr.beta].vi_rate.at = <<ncalls, t, "beta.vi_rate">>
                /\ heap'[fr.beta].vi_rate.reads =
                      BlockStamps(heap, fr.eta) \o BlockStamps(heap, fr.theta)
                /\ heap'[fr.eta].vi_rate.at = <<ncalls, t, "eta.vi_rate">>
                /\ heap'[fr.eta].vi_rate.reads = BlockStamps(heap', fr.beta)
        /\ heap'[fr.theta].vi_shape.at = <<ncalls, t, "theta.vi_shape">>
        /\ heap'[fr.theta].vi_shape.reads = Xphi
        /\ heap'[fr.theta].vi_rate.at = <<ncalls, t, "theta.vi_rate">>
        /\ heap'[fr.theta].vi_rate.reads =
              BlockStamps(heap, fr.xi) \o BlockStamps(heap', fr.beta)
        /\ heap'[fr.xi].vi_rate.at = <<ncalls, t, "xi.vi_rate">>
        /\ heap'[fr.xi].vi_rate.reads = BlockStamps(heap', fr.theta)

\* C12 as stated: in every iteration the responsibilities are computed once
\* from the blocks as the previous iteration left them, the gene writes (when
\* not frozen) and then the cell writes follow in order, each reading what the
\* claim says.
C12_UpdateOrder ==
    [][IterationStep => (XphiFromBlocks /\ WritesInOrder)]_vars

\* C12 amended: ... except that the first iteration of a call with reinit
\* draws the responsibilities at random and reads no block.
C12_UpdateOrderAfterRandomStart ==
    [][IterationStep =>
         /\ IF fr.t = 0 /\ fr.reinit THEN XphiRandom ELSE XphiFromBlocks
         /\ WritesInOrder]_vars

\* a second iteration with the gene side updated: the cell-loading rate holds
\* what it read of the gene-loading block written in the same iteration
C12_Witness ==
    /\ Entered /\ fr.niter >= 2 /\ ~fr.freeze_genes
    /\ fr.Xphi_data.k = "compute_Xphi_data"
    /\ heap[fr.theta].vi_rate.at = <<ncalls, fr.t - 1, "theta.vi_rate">>
    /\ heap[fr.theta].vi_rate.reads[3] = Stamp(heap[fr.beta].vi_shape)
    /\ heap[fr.beta].vi_shape.at = <<ncalls, fr.t - 1, "beta.vi_shape">>

\* ------------------------------------------------------------------ C13
\* the capacity shapes of the call of frame f in heap h hold the values of the
\* first updates: ap + K * a, and cp + K * c when the gene side is not frozen
CapacityShapesAsInitialized(f, h) ==
    (f.entry \in {"fit", "project"} /\ f.error # "ValueError") =>
      /\ h[f.xi].vi_shape =
            Filled(RAdd(self.ap, RMul(RInt(self.nfactors), self.a)))
      /\ ~f.freeze_genes =>
            h[f.eta].vi_shape =
              Filled(RAdd(self.cp, RMul(RInt(self.nfactors), self.c)))

\* C13: after the first updates, after every iteration and on return the
\* cell-capacity shape is ap + K * a and, when the gene side is not frozen,
\* the gene-capacity shape is cp + K * c; an iteration leaves both capacity
\* shapes as they were and writes the capacity rates.
C13_CapacityShapesFixed ==
    [][/\ CapacityShapesAsInitialized(fr', heap')
       /\ IterationStep =>
             /\ heap'[fr.xi].vi_shape = heap[fr.xi].vi_shape
             /\ heap'[fr.eta].vi_shape = heap[fr.eta].vi_shape
             /\ heap'[fr.xi].vi_rate.at = <<ncalls, fr.t, "xi.vi_rate">>
             /\ ~fr.freeze_genes =>
                   heap'[fr.eta].vi_rate.at = <<ncalls, fr.t, "eta.vi_rate">>]_vars

\* a fit that updated the gene side returned after two or more iterations
C13_Witness ==
    /\ Entered /\ fr.status = "returned" /\ fr.niter >= 2 /\ ~fr.freeze_genes
    /\ heap[fr.eta].vi_rate.at = <<ncalls, fr.t - 1, "eta.vi_rate">>
    /\ heap[fr.eta].vi_shape.k = "fill"

\* ------------------------------------------------------------------ C14
\* _setup of the running (or last) call returned its six values
SetupReturned == fr.status # "none" /\ fr.error # "ValueError"

\* block b is an object that _setup of this call created
Fresh(b) == b > Len(fr.pre.heap) /\ b <= Len(heap)

\* block b follows the rule: created when reinit is requested or the stored
\* block is absent, the stored block otherwise
CreatedOrReused(b, stored) ==
    IF fr.reinit \/ stored = NoObj THEN Fresh(b) ELSE b = stored

\* C14: _setup creates xi and theta iff reinit is requested or the stored
\* block is absent and reuses the stored block otherwise; not frozen, the same
\* holds of eta and beta; frozen, the stored eta and beta are returned as they
\* are, also with reinit.
C14_SetupModes ==
    SetupReturned =>
      /\ CreatedOrReused(fr.xi, fr.pre.self.xi)
      /\ CreatedOrReused(fr.theta, fr.pre.self.theta)
      /\ fr.xi # fr.theta
      /\ IF fr.freeze_genes
         THEN /\ fr.eta = fr.pre.self.eta /\ fr.eta # NoObj
              /\ fr.beta = fr.pre.self.beta /\ fr.beta # NoObj
              /\ heap[fr.eta] = fr.pre.heap[fr.eta]
              /\ heap[fr.beta] = fr.pre.heap[fr.beta]
         ELSE /\ CreatedOrReused(fr.eta, fr.pre.self.eta)
              /\ CreatedOrReused(fr.beta, fr.pre.self.beta)
              /\ fr.eta # fr.beta

\* a fit continued from the stored cell and gene blocks
C14_Witness ==
    /\ SetupReturned /\ fr.entry = "fit" /\ ~fr.reinit /\ ~fr.freeze_genes
    /\ fr.pre.self.xi # NoObj /\ fr.xi = fr.pre.self.xi
    /\ fr.pre.self.beta # NoObj /\ fr.beta = fr.pre.self.beta

\* ------------------------------------------------------------------ C15
\* C15: iteration t makes a check exactly when t mod check_freq = 0; a check
\* appends one loss and, when a message_function was given, invokes it once
\* with (theta, beta, t) on the blocks as that iteration's updates left them,
\* whether or not the check then stops the loop; an iteration that makes no
\* check appends no loss and invokes nothing.
C15_CheckSchedule ==
    [][IterationStep =>
         LET t == fr.t
             isCheck == t % self.check_freq = 0
         IN  /\ (fr'.chk.t = t) <=> isCheck
             /\ ~isCheck => fr'.chk.t = -1
             /\ Len(self'.loss) = Len(self.loss) + (IF isCheck THEN 1 ELSE 0)
             /\ fr'.nchecks = fr.nchecks + (IF isCheck THEN 1 ELSE 0)
             /\ fr'.messages =
                   IF isCheck /\ fr.message_function
                   THEN Append(fr.messages,
                               [theta |-> fr.theta, beta |-> fr.beta, t |-> t,
                                seen |-> BlockStamps(heap', fr.theta)])
                   ELSE fr.messages]_vars

\* with check_freq = 2 a stopping rule ended the loop at a check, and the
\* message_function was invoked at that check as at every check before
C15_Witness ==
    /\ Entered /\ fr.message_function /\ self.check_freq = 2
    /\ fr.outcome \in {"converged", "getting worse break"}
    /\ fr.niter > fr.nchecks
    /\ Len(fr.messages) = fr.nchecks
    /\ fr.messages[Len(fr.messages)].t = fr.chk.t

\* ------------------------------------------------------------------ C16
\* C16: whenever the convergence rule is evaluated, the call has recorded at
\* least two percent changes, and reading the two most recent ones does not
\* fail, in a first fit, a refit and a project after a fit.
C16_TwoPctAtConvergence ==
    (AtCheck /\ ConvergenceGuard(self.loss, fr.chk.t, fr.min_iter))
    => (Len(fr.pct_change) >= 2 /\ fr.error # "IndexError")

\* ------------------------------------------------------------------ C17
\* what a model stores of a fit
Stored(slf) == [bp |-> slf.bp, dp |-> slf.dp, xi |-> slf.xi, eta |-> slf.eta,
                theta |-> slf.theta, beta |-> slf.beta]

\* C17: during and after project the model's bp, dp and block references and
\* every object that existed before the call are as they were, and the xi and
\* theta of the call are objects created by the call; a fit leaves the stored
\* values alone until it returns and then stores the six values _fit returned.
C17_ProjectStoresNothing ==
    /\ (fr.entry = "project" /\ fr.status # "none") =>
          /\ Stored(self) = Stored(fr.pre.self)
          /\ OldObjectsUnchanged
          /\ fr.error # "ValueError" =>
                /\ Fresh(fr.xi) /\ Fresh(fr.theta)
                /\ fr.xi # self.xi /\ fr.theta # self.theta
          /\ fr.status = "returned" =>
                /\ fr.ret.xi = fr.xi /\ fr.ret.theta = fr.theta
                /\ fr.ret.bp = fr.bp
    /\ (fr.entry = "fit" /\ fr.status \in {"running", "raised"}) =>
          Stored(self) = Stored(fr.pre.self)
    /\ (fr.entry = "fit" /\ fr.status = "returned") =>
          Stored(self) = Returned(fr)

\* a projection on a fitted model ran its iterations and returned
C17_Witness ==
    /\ fr.entry = "project" /\ fr.status = "returned" /\ fr.niter > 0
    /\ fr.pre.self.xi # NoObj /\ fr.pre.self.beta # NoObj
    /\ heap[fr.theta].vi_rate.at[1] = ncalls

====
